---- MODULE Spec2Model ----
(***************************************************************************)
(* Model of src/src/crawler.py: the Crawler class of DigikalaBot.          *)
(*                                                                         *)
(* Python and JSON values are tagged pairs <<tag, payload>>:               *)
(*   <<"str",  chars>>    a str, chars a sequence of one-character tokens  *)
(*   <<"int",  <<n>>>>    an int                                           *)
(*   <<"null", <<>>>>     None / JSON null                                 *)
(*   <<"list", items>>    a list of values                                 *)
(*   <<"dict", pairs>>    a dict, pairs a sequence of <<key, value>>       *)
(* An expression that raises an Exception evaluates to Raised.             *)
(***************************************************************************)
EXTENDS Integers, Sequences, FiniteSets, TLC

VARIABLES
    text, once, twice, cpc,          \* clean_text applied to one string
    detail, review, rlog, stored, rpc  \* get_product_review applied to one payload

VARIABLES
    page, category, brand,           \* fields set by __init__, per Crawler
    pc,                              \* where each Crawler's run() stands
    products, idx, product_id,       \* locals of run(); idx is the position
    details, pair,                   \*   of product in products
    raisedIn,                        \* the call whose exception run() caught
    listing,                         \* the response the listing request got
    trace,                           \* each Crawler's requests and calls
    log                              \* each Crawler's log messages

cleanVars == <<text, once, twice, cpc>>
reviewVars == <<detail, review, rlog, stored, rpc>>
configVars == <<page, category, brand>>
localVars == <<products, idx, product_id, details, pair>>
runVars == <<configVars, pc, localVars, raisedIn, listing, trace, log>>
vars == <<cleanVars, reviewVars, runVars>>

----------------------------------------------------------------------------
(* Values *)

Str(s) == <<"str", s>>
Num(n) == <<"int", <<n>>>>
Null == <<"null", <<>>>>
List(items) == <<"list", items>>
Dict(pairs) == <<"dict", pairs>>
Raised == <<"raise", <<>>>>
Tag(x) == x[1]
Val(x) == x[2]

EmptyStr == Str(<<>>)
EmptyDict == Dict(<<>>)
EmptyList == List(<<>>)

\* One-character tokens.  ZWNJ stands for U+200C.
ZWNJ == "zwnj"
Whitespace == {" ", "\n", "\t"}
Alphabet == {"a", "b", " ", "\n", "\t", ZWNJ}

----------------------------------------------------------------------------
(* clean_text *)

\* text.replace("‌", "")
RECURSIVE RemoveZwnj(_)
RemoveZwnj(s) ==
    IF s = <<>> THEN <<>>
    ELSE IF Head(s) = ZWNJ THEN RemoveZwnj(Tail(s))
    ELSE <<Head(s)>> \o RemoveZwnj(Tail(s))

\* re.sub(r"\s+", " ", text): every maximal run of whitespace becomes one space
RECURSIVE CollapseWs(_)
CollapseWs(s) ==
    IF s = <<>> THEN <<>>
    ELSE IF Head(s) \in Whitespace
         THEN IF Len(s) > 1 /\ s[2] \in Whitespace
              THEN CollapseWs(Tail(s))
              ELSE <<" ">> \o CollapseWs(Tail(s))
         ELSE <<Head(s)>> \o CollapseWs(Tail(s))

RECURSIVE LStrip(_)
LStrip(s) ==
    IF s # <<>> /\ Head(s) \in Whitespace THEN LStrip(Tail(s)) ELSE s

RECURSIVE RStrip(_)
RStrip(s) ==
    IF s # <<>> /\ s[Len(s)] \in Whitespace
    THEN RStrip(SubSeq(s, 1, Len(s) - 1))
    ELSE s

\* str.strip()
Strip(s) == RStrip(LStrip(s))

\* clean_text with the whitespace collapsed before the ZWNJ is removed.
CleanCharsCollapseFirst(s) == Strip(RemoveZwnj(CollapseWs(s)))

\* The three statements of clean_text on the characters of a str.
CleanChars(s) == Strip(CollapseWs(RemoveZwnj(s)))

\* clean_text(text): text.replace raises AttributeError unless text is a str.
clean_text(v) ==
    IF Tag(v) # "str" THEN Raised ELSE Str(CleanChars(Val(v)))

----------------------------------------------------------------------------
(* dict and iteration primitives used by get_product_review and run *)

IsRaised(x) == Tag(x) = "raise"
IsDict(x) == Tag(x) = "dict"

RECURSIVE Lookup(_, _, _)
Lookup(pairs, key, default) ==
    IF pairs = <<>> THEN default
    ELSE IF Head(pairs)[1] = key THEN Head(pairs)[2]
    ELSE Lookup(Tail(pairs), key, default)

\* obj.get(key, default): AttributeError unless obj is a dict.
Get(obj, key, default) ==
    IF Tag(obj) # "dict" THEN Raised ELSE Lookup(Val(obj), key, default)

\* key in obj, for a dict obj
HasKey(obj, key) == \E i \in 1..Len(Val(obj)) : Val(obj)[i][1] = key

\* The items a for loop (or a generator) draws from v, as <<"items", seq>>:
\* the elements of a list, the keys of a dict, the characters of a str;
\* TypeError for None and int.  A key is drawn as a one-token str: every use
\* of a drawn key below is .get or .replace, which depend on the type alone.
Iter(v) ==
    CASE Tag(v) = "list" -> <<"items", Val(v)>>
      [] Tag(v) = "dict" -> <<"items", [i \in 1..Len(Val(v)) |-> Str(<<Val(v)[i][1]>>)]>>
      [] Tag(v) = "str"  -> <<"items", [i \in 1..Len(Val(v)) |-> Str(<<Val(v)[i]>>)]>>
      [] OTHER -> Raised

----------------------------------------------------------------------------
(* get_product_review *)

\* " ".join(self.clean_text(v) for v in items): the characters of the joined
\* string as <<"str", chars>>, or Raised when clean_text raises on an item.
RECURSIVE JoinCleaned(_)
JoinCleaned(items) ==
    IF items = <<>> THEN EmptyStr
    ELSE LET first == clean_text(Head(items))
             rest == JoinCleaned(Tail(items))
         IN  IF IsRaised(first) \/ IsRaised(rest) THEN Raised
             ELSE IF Len(items) = 1 THEN first
             ELSE Str(Val(first) \o <<" ">> \o Val(rest))

\* One pass of the loop body for attr: the text appended to attributes.
AttrBlock(attr) ==
    LET title == IF IsRaised(Get(attr, "title", EmptyStr)) THEN Raised
                 ELSE clean_text(Get(attr, "title", EmptyStr))
        vals == Get(attr, "values", EmptyList)
        drawn == IF IsRaised(vals) THEN Raised ELSE Iter(vals)
        values == IF IsRaised(drawn) THEN Raised ELSE JoinCleaned(Val(drawn))
    IN  IF IsRaised(title) \/ IsRaised(values) THEN Raised
        ELSE Str(Val(title) \o <<":", " ">> \o Val(values) \o <<"\n">>)

\* The for loop over reviews["attributes"], from the accumulated text acc.
RECURSIVE AttrLoop(_, _)
AttrLoop(items, acc) ==
    IF items = <<>> THEN Str(acc)
    ELSE LET block == AttrBlock(Head(items))
         IN  IF IsRaised(block) THEN Raised
             ELSE AttrLoop(Tail(items), acc \o Val(block))

\* The try block of get_product_review: <<"pair", <<description, attributes>>>>,
\* or Raised when a statement of it raises.
ReviewTry(jsonfile) ==
    LET data == Get(jsonfile, "data", EmptyDict)
        product == IF IsRaised(data) THEN Raised ELSE Get(data, "product", EmptyDict)
        reviews == IF IsRaised(product) THEN Raised ELSE Get(product, "review", EmptyDict)
        \* reviews.get raises unless reviews is a dict, so the lines after it
        \* run with a dict
        description == IF IsRaised(reviews) \/ Tag(reviews) # "dict" THEN Raised
                       ELSE clean_text(Get(reviews, "description", EmptyStr))
        drawn == IF IsRaised(description) THEN Raised
                 ELSE IF HasKey(reviews, "attributes")
                      THEN Iter(Lookup(Val(reviews), "attributes", Null))
                      ELSE <<"items", <<>>>>
        attributes == IF IsRaised(drawn) THEN Raised ELSE AttrLoop(Val(drawn), <<>>)
    IN  IF IsRaised(attributes) THEN Raised
        ELSE <<"pair", <<description, Str(Strip(Val(attributes)))>>>>

\* get_product_review whose except branch returns None, None.
get_product_review_none(jsonfile) ==
    IF IsRaised(ReviewTry(jsonfile)) THEN <<Null, Null>>
    ELSE Val(ReviewTry(jsonfile))

\* get_product_review(jsonfile): the except branch logs and returns ("", "").
get_product_review(jsonfile) ==
    IF IsRaised(ReviewTry(jsonfile)) THEN <<EmptyStr, EmptyStr>>
    ELSE Val(ReviewTry(jsonfile))

----------------------------------------------------------------------------
(* Bounds *)

MaxLen == 5

RECURSIVE SeqsUpTo(_, _)
SeqsUpTo(S, n) ==
    IF n = 0 THEN {<<>>}
    ELSE LET shorter == SeqsUpTo(S, n - 1)
         IN  shorter \cup {Append(s, x) : s \in {t \in shorter : Len(t) = n - 1}, x \in S}

Texts == SeqsUpTo(Alphabet, MaxLen)

----------------------------------------------------------------------------
(* Detail payloads get_product_review is applied to *)

MaxAttrs == 2
MaxValues == 2

\* Marks a key left out of a dict; never part of a payload.
Absent == <<"absent", <<>>>>
Entry(key, v) == IF Tag(v) = "absent" THEN <<>> ELSE << <<key, v>> >>

\* A value of an attribute: with whitespace and ZWNJ to clean, empty once
\* cleaned, or not a str.
ValueSamples ==
    { Str(<<" ", "b", "\n", "\t", "a">>), Str(<<ZWNJ, " ">>), Num(7) }

TitleSamples == { Absent, Str(<<"a", ZWNJ, " ">>), Num(7) }

\* values that are no list, for an attribute that holds no list of values
OddValues == { Absent, Null, Str(<<"a", "b">>) }

RECURSIVE ListsOfLen(_, _)
ListsOfLen(S, n) ==
    IF n = 0 THEN {<<>>}
    ELSE {<<x>> \o rest : x \in S, rest \in ListsOfLen(S, n - 1)}

\* The attributes whose values list has exactly k entries (and, for k = 0,
\* those with odd values and the attribute that is no dict).
AttrsWith(k) ==
    { Dict(Entry("title", t) \o Entry("values", List(vs))) :
        t \in TitleSamples, vs \in ListsOfLen(ValueSamples, k) }
    \cup (IF k = 0
          THEN { Dict(Entry("title", t) \o Entry("values", v)) :
                   t \in TitleSamples, v \in OddValues } \cup { Num(7) }
          ELSE {})

AttrSamples == UNION { AttrsWith(k) : k \in 0..MaxValues }

\* The number of listed values of the attributes as.
RECURSIVE TotalValues(_)
TotalValues(as) ==
    IF as = <<>> THEN 0
    ELSE (IF IsDict(Head(as)) /\ Tag(Lookup(Val(Head(as)), "values", Null)) = "list"
          THEN Len(Val(Lookup(Val(Head(as)), "values", Null)))
          ELSE 0) + TotalValues(Tail(as))

\* attributes that is no list
OddAttributes ==
    { Absent, Null, Num(7), EmptyDict, EmptyStr, Str(<<"a">>),
      Dict(<< <<"title", Str(<<"a">>)>> >>) }

FullDescription == Str(<<" ", "h", ZWNJ, "i", "\t", " ">>)
OtherDescriptions == { Absent, Null, Num(7), EmptyStr }

\* The payload {"data": {"product": {"review": review}}}
DetailOf(r) ==
    Dict(<< <<"data", Dict(<< <<"product", Dict(<< <<"review", r>> >>)>> >>)>> >>)

\* The payloads with a full description and a list of at most MaxAttrs
\* attributes holding at most MaxValues values in all.
IsListedDetail(d) ==
    \E n \in 0..MaxAttrs : \E as \in [1..n -> AttrSamples] :
        /\ TotalValues(as) <= MaxValues
        /\ d = DetailOf(Dict(Entry("description", FullDescription)
                             \o Entry("attributes", List(as))))

\* The other payloads: the other descriptions, attributes that is no list,
\* and paths that break off or run into something that is no dict.
Under(key, S) == { Dict(Entry(key, v)) : v \in S }

OtherDetails ==
    { DetailOf(Dict(Entry("description", d) \o Entry("attributes", a))) :
        d \in OtherDescriptions \cup {FullDescription},
        a \in OddAttributes \cup { List(<<at>>) : at \in AttrsWith(0) \cup AttrsWith(1) } }
    \cup Under("data", Under("product", Under("review", { Null, Num(7), EmptyList, Str(<<"a">>) })))
    \cup Under("data", Under("product", { Absent, Null, EmptyList, Str(<<"a">>) }))
    \cup Under("data", { Absent, Null, Num(7), EmptyList })
    \cup { Null, Num(7), EmptyList, Str(<<"a">>) }

----------------------------------------------------------------------------
(* HTTP responses, get_products and get_product_details *)

\* What requests.get, raise_for_status and response.json() make of a request:
\*   <<"transport", Null>>    requests.get raises
\*   <<"http_error", Null>>   raise_for_status raises for the status
\*   <<"invalid_json", Null>> response.json() raises
\*   <<"json", body>>         response.json() returns body
Transport == <<"transport", Null>>
HttpError == <<"http_error", Null>>
InvalidJson == <<"invalid_json", Null>>
Json(body) == <<"json", body>>
\* UserAgent().random raises while the headers are built, before the try.
HeadersRaise == <<"headers_raise", Null>>
FailedResponses == { Transport, HttpError, InvalidJson }

\* obj[key]: KeyError for a dict without the key, TypeError or IndexError for
\* the other values under a str key.
Subscript(obj, key) ==
    IF Tag(obj) = "dict" /\ HasKey(obj, key) THEN Lookup(Val(obj), key, Null) ELSE Raised

\* The page get_products requests when its caller names none.
DefaultPage == 1

\* self.url_get_products.format(category=category, brand=brand, page=page)
ListingUrl(c, b, p) == <<c, b, p>>

\* The try block of get_products for a response to its request.
ProductsTry(response) ==
    IF response \in FailedResponses THEN Raised
    ELSE LET data == Subscript(Val(response), "data")
         IN  IF IsRaised(data) THEN Raised ELSE Subscript(data, "products")

\* What get_products returns: the except branch logs and returns [].
get_products(response) ==
    IF IsRaised(ProductsTry(response)) THEN EmptyList ELSE ProductsTry(response)

\* get_product_details whose except branch returns None.
get_product_details_none(response) ==
    IF response \in FailedResponses THEN Null ELSE Val(response)

\* What get_product_details returns: the except branch logs and returns {}.
get_product_details(response) ==
    IF response \in FailedResponses THEN EmptyDict ELSE Val(response)

\* "not product_id" written as "product_id is None"
TruthyNotNone(v) == Tag(v) # "null"

\* bool(v), as "not product_id" takes it
Truthy(v) ==
    CASE Tag(v) = "null" -> FALSE
      [] Tag(v) = "int" -> Val(v)[1] # 0
      [] OTHER -> Val(v) # <<>>

\* len(v) is defined for str, list and dict; TypeError for None and int.
Sized(v) == Tag(v) \in {"str", "list", "dict"}

----------------------------------------------------------------------------
(* run() *)

Crawlers == {1, 2}

\* The products the for loop of run draws from the list get_products returned.
Items(c) == Val(Iter(products[c]))

Logged(c, entry) == log' = [log EXCEPT ![c] = Append(@, entry)]
Traced(c, event) == trace' = [trace EXCEPT ![c] = Append(@, event)]
Goto(c, label) == pc' = [pc EXCEPT ![c] = label]

\* logger.info(f"Digikala Crawler has started - page {self.page}")
RunStarted(c) ==
    /\ pc[c] = "start"
    /\ Logged(c, <<"info", "started", page[c]>>)
    /\ Goto(c, "get_products")
    /\ UNCHANGED <<configVars, localVars, raisedIn, listing, trace, cleanVars, reviewVars>>

\* The page run() asks get_products for: category and brand are passed, the
\* page is not, so the parameter takes its default.
RequestedPage(c) == DefaultPage

\* products = self.get_products(category=self.category, brand=self.brand)
GetProducts(c, Responses) ==
    /\ pc[c] = "get_products"
    /\ \E r \in Responses \cup {HeadersRaise} :
         IF r = HeadersRaise
         THEN /\ raisedIn' = [raisedIn EXCEPT ![c] = "get_products"]
              /\ Goto(c, "except")
              /\ UNCHANGED <<listing, products, trace, log>>
         ELSE /\ listing' = [listing EXCEPT ![c] = r]
              /\ Traced(c, <<"listing", 0, ListingUrl(category[c], brand[c], RequestedPage(c))>>)
              /\ products' = [products EXCEPT ![c] = get_products(r)]
              /\ IF IsRaised(ProductsTry(r))
                 THEN Logged(c, <<"error", "products">>)
                 ELSE UNCHANGED log
              /\ Goto(c, "count")
              /\ UNCHANGED raisedIn
    /\ UNCHANGED <<configVars, idx, product_id, details, pair, cleanVars, reviewVars>>

\* logger.info(f"{len(products)} item in page {self.page} Crawled data") and
\* the start of the for loop
LogCount(c) ==
    /\ pc[c] = "count"
    /\ IF Sized(products[c])
       THEN /\ Logged(c, <<"info", "count", Len(Val(products[c])), page[c]>>)
            /\ idx' = [idx EXCEPT ![c] = 1]
            /\ Goto(c, "next")
            /\ UNCHANGED raisedIn
       ELSE /\ raisedIn' = [raisedIn EXCEPT ![c] = "len"]
            /\ Goto(c, "except")
            /\ UNCHANGED <<log, idx>>
    /\ UNCHANGED <<configVars, products, product_id, details, pair, listing, trace,
                   cleanVars, reviewVars>>

\* for product in products: product_id = product.get("id");
\* if not product_id: continue
NextProduct(c) ==
    /\ pc[c] = "next"
    /\ IF idx[c] > Len(Items(c))
       THEN /\ Goto(c, "complete")
            /\ UNCHANGED <<idx, product_id, raisedIn>>
       ELSE LET id == Get(Items(c)[idx[c]], "id", Null)
            IN  IF IsRaised(id)
                THEN /\ raisedIn' = [raisedIn EXCEPT ![c] = "product.get"]
                     /\ Goto(c, "except")
                     /\ UNCHANGED <<idx, product_id>>
                ELSE IF ~Truthy(id)
                THEN /\ idx' = [idx EXCEPT ![c] = @ + 1]
                     /\ UNCHANGED <<pc, product_id, raisedIn>>
                ELSE /\ product_id' = [product_id EXCEPT ![c] = id]
                     /\ Goto(c, "details")
                     /\ UNCHANGED <<idx, raisedIn>>
    /\ UNCHANGED <<configVars, products, details, pair, listing, trace, log,
                   cleanVars, reviewVars>>

\* details = self.get_product_details(product_id).  The event records whether
\* the request failed, which the value returned does not tell.
GetProductDetails(c, Responses) ==
    /\ pc[c] = "details"
    /\ \E r \in Responses \cup {HeadersRaise} :
         IF r = HeadersRaise
         THEN /\ raisedIn' = [raisedIn EXCEPT ![c] = "get_product_details"]
              /\ Goto(c, "except")
              /\ UNCHANGED <<details, trace, log>>
         ELSE /\ Traced(c, <<"detail", idx[c],
                             <<product_id[c], IF r \in FailedResponses THEN "failed" ELSE "json">>>>)
              /\ details' = [details EXCEPT ![c] = get_product_details(r)]
              /\ IF r \in FailedResponses
                 THEN Logged(c, <<"error", "details", product_id[c]>>)
                 ELSE UNCHANGED log
              /\ Goto(c, "extract")
              /\ UNCHANGED raisedIn
    /\ UNCHANGED <<configVars, products, idx, product_id, pair, listing, cleanVars, reviewVars>>

\* description, attributes = self.get_product_review(details)
Extract(c) ==
    /\ pc[c] = "extract"
    /\ pair' = [pair EXCEPT ![c] = get_product_review(details[c])]
    /\ Traced(c, <<"extract", idx[c], <<>>>>)
    /\ IF IsRaised(ReviewTry(details[c]))
       THEN Logged(c, <<"error", "review">>)
       ELSE UNCHANGED log
    /\ Goto(c, "store")
    /\ UNCHANGED <<configVars, products, idx, product_id, details, raisedIn, listing,
                   cleanVars, reviewVars>>

\* self.store_in_db(description, attributes), and on to the next product
Store(c) ==
    /\ pc[c] = "store"
    /\ Traced(c, <<"store", idx[c], pair[c]>>)
    /\ idx' = [idx EXCEPT ![c] = @ + 1]
    /\ Goto(c, "next")
    /\ UNCHANGED <<configVars, products, product_id, details, pair, raisedIn, listing, log,
                   cleanVars, reviewVars>>

\* A handler that logs the error and raises it again.
ExceptReraises(c) ==
    /\ pc[c] = "except"
    /\ Logged(c, <<"error", "run", page[c]>>)
    /\ Goto(c, "propagated")
    /\ UNCHANGED <<configVars, localVars, raisedIn, listing, trace, cleanVars, reviewVars>>

\* except Exception as e: logger.error(f"Error during crawler run at page ...")
Except(c) ==
    /\ pc[c] = "except"
    /\ Logged(c, <<"error", "run", page[c]>>)
    /\ Goto(c, "complete")
    /\ UNCHANGED <<configVars, localVars, raisedIn, listing, trace, cleanVars, reviewVars>>

\* logger.info(f"Crawling of page {self.page} completed successfully"); return
Complete(c) ==
    /\ pc[c] = "complete"
    /\ Logged(c, <<"info", "completed", page[c]>>)
    /\ Goto(c, "done")
    /\ UNCHANGED <<configVars, localVars, raisedIn, listing, trace, cleanVars, reviewVars>>

\* No Crawler has been constructed.
RunIdle ==
    /\ page = [c \in Crawlers |-> 1]
    /\ category = [c \in Crawlers |-> ""]
    /\ brand = [c \in Crawlers |-> ""]
    /\ pc = [c \in Crawlers |-> "off"]
    /\ products = [c \in Crawlers |-> Null]
    /\ idx = [c \in Crawlers |-> 0]
    /\ product_id = [c \in Crawlers |-> Null]
    /\ details = [c \in Crawlers |-> Null]
    /\ pair = [c \in Crawlers |-> <<>>]
    /\ raisedIn = [c \in Crawlers |-> "none"]
    /\ listing = [c \in Crawlers |-> <<"none", Null>>]
    /\ trace = [c \in Crawlers |-> <<>>]
    /\ log = [c \in Crawlers |-> <<>>]

CleanIdle == text = <<>> /\ once = Null /\ twice = Null /\ cpc = "idle"
ReviewIdle == detail = Null /\ review = <<>> /\ rlog = <<>> /\ stored = <<>> /\ rpc = "idle"

----------------------------------------------------------------------------
(* SpecClean: clean_text applied once and then again to its own result *)

InitClean ==
    /\ text \in Texts
    /\ once = Null
    /\ twice = Null
    /\ cpc = "call"
    /\ ReviewIdle
    /\ RunIdle

CleanOnce ==
    /\ cpc = "call"
    /\ once' = clean_text(Str(text))
    /\ cpc' = "again"
    /\ UNCHANGED <<text, twice, reviewVars, runVars>>

CleanAgain ==
    /\ cpc = "again"
    /\ twice' = clean_text(once)
    /\ cpc' = "done"
    /\ UNCHANGED <<text, once, reviewVars, runVars>>

NextClean == CleanOnce \/ CleanAgain

SpecClean == InitClean /\ [][NextClean]_vars

----------------------------------------------------------------------------
(* SpecReview: get_product_review applied to one detail payload, and the   *)
(* pair it returns stored                                                  *)

InitReview ==
    /\ IsListedDetail(detail) \/ detail \in OtherDetails
    /\ review = <<>>
    /\ rlog = <<>>
    /\ stored = <<>>
    /\ rpc = "call"
    /\ CleanIdle
    /\ RunIdle

\* The call returns the pair of the try block.
ReviewReturns ==
    /\ rpc = "call"
    /\ ~IsRaised(ReviewTry(detail))
    /\ review' = get_product_review(detail)
    /\ rpc' = "returned"
    /\ UNCHANGED <<detail, rlog, stored, cleanVars, runVars>>

\* A statement of the try block raises: logger.error, return "", "".
ReviewExcept ==
    /\ rpc = "call"
    /\ IsRaised(ReviewTry(detail))
    /\ review' = get_product_review(detail)
    /\ rlog' = Append(rlog, "Error while extracting review")
    /\ rpc' = "returned"
    /\ UNCHANGED <<detail, stored, cleanVars, runVars>>

\* run hands the returned pair to store_in_db (crawler.py lines 163-164).
ReviewStored ==
    /\ rpc = "returned"
    /\ stored' = Append(stored, review)
    /\ rpc' = "stored"
    /\ UNCHANGED <<detail, review, rlog, cleanVars, runVars>>

NextReview == ReviewReturns \/ ReviewExcept \/ ReviewStored

SpecReview == InitReview /\ [][NextReview]_vars

----------------------------------------------------------------------------
(* Spec: one Crawler, constructed with any page, runs once *)

MaxPage == 2
MaxProducts == 3

Pages == 1..MaxPage

\* The category and brand of the configuration.
ConfigCategory == "category-a"
ConfigBrand == "brand-b"

WithId(id) == Dict(<< <<"id", id>>, <<"title", Str(<<"a">>)>> >>)

\* A product with an int id, with a str id, without id, with the ids 0 and "",
\* and a product that is no dict.
ProductSamples ==
    { WithId(Num(5)), WithId(Str(<<"x", "6">>)), Dict(<< <<"title", Str(<<"a">>)>> >>),
      WithId(Num(0)), WithId(EmptyStr), Num(7) }

ProductLists == UNION { [1..n -> ProductSamples] : n \in 0..MaxProducts }

ListingBody(v) == Dict(<< <<"data", Dict(<< <<"products", v>> >>)>> >>)

\* Bodies whose data.products is an array, bodies whose data.products is
\* something else, bodies without the path, and the failed requests.
ListingResponses ==
    { Json(ListingBody(List(ps))) : ps \in ProductLists }
    \cup { Json(ListingBody(v)) : v \in { Null, Num(7), EmptyDict, EmptyStr,
                                         Dict(<< <<"id", Num(5)>> >>) } }
    \cup { Json(b) : b \in { EmptyDict, Dict(<< <<"data", Null>> >>),
                            Dict(<< <<"data", EmptyDict>> >>), EmptyList } }
    \cup FailedResponses

GoodDetail ==
    DetailOf(Dict(<< <<"description", FullDescription>>,
                     <<"attributes", List(<< Dict(<< <<"title", Str(<<"a", ZWNJ, " ">>)>>,
                                                    <<"values", List(<< Str(<<" ", "b">>) >>)>> >>) >>)>> >>))

\* attributes is no list
OddDetail ==
    DetailOf(Dict(<< <<"description", FullDescription>>, <<"attributes", Num(7)>> >>))

DetailResponses ==
    { Json(GoodDetail), Json(OddDetail), Json(EmptyDict) } \cup FailedResponses

Init ==
    /\ CleanIdle
    /\ ReviewIdle
    /\ \E p \in Pages :
         /\ page = [c \in Crawlers |-> IF c = 1 THEN p ELSE 1]
         /\ category = [c \in Crawlers |-> IF c = 1 THEN ConfigCategory ELSE ""]
         /\ brand = [c \in Crawlers |-> IF c = 1 THEN ConfigBrand ELSE ""]
         /\ pc = [c \in Crawlers |-> IF c = 1 THEN "start" ELSE "off"]
    /\ products = [c \in Crawlers |-> Null]
    /\ idx = [c \in Crawlers |-> 0]
    /\ product_id = [c \in Crawlers |-> Null]
    /\ details = [c \in Crawlers |-> Null]
    /\ pair = [c \in Crawlers |-> <<>>]
    /\ raisedIn = [c \in Crawlers |-> "none"]
    /\ listing = [c \in Crawlers |-> <<"none", Null>>]
    /\ trace = [c \in Crawlers |-> <<>>]
    /\ log = [c \in Crawlers |-> <<>>]

Next ==
    \E c \in Crawlers :
        \/ RunStarted(c)
        \/ GetProducts(c, ListingResponses)
        \/ LogCount(c)
        \/ NextProduct(c)
        \/ GetProductDetails(c, DetailResponses)
        \/ Extract(c)
        \/ Store(c)
        \/ Except(c)
        \/ Complete(c)

Spec == Init /\ [][Next]_vars

----------------------------------------------------------------------------
(* SpecPair: two Crawlers built from one configuration with different      *)
(* pages, their runs interleaved step by step                              *)

MaxPairProducts == 2

PairProductLists ==
    UNION { [1..n -> { WithId(Num(5)), Dict(<< <<"title", Str(<<"a">>)>> >>) }] :
            n \in 0..MaxPairProducts }

PairListingResponses ==
    { Json(ListingBody(List(ps))) : ps \in PairProductLists }
    \cup { Json(ListingBody(Null)), Transport }

PairDetailResponses == { Json(GoodDetail), Transport }

InitPair ==
    /\ CleanIdle
    /\ ReviewIdle
    /\ page \in { f \in [Crawlers -> Pages] : f[1] # f[2] }
    /\ category = [c \in Crawlers |-> ConfigCategory]
    /\ brand = [c \in Crawlers |-> ConfigBrand]
    /\ pc = [c \in Crawlers |-> "start"]
    /\ products = [c \in Crawlers |-> Null]
    /\ idx = [c \in Crawlers |-> 0]
    /\ product_id = [c \in Crawlers |-> Null]
    /\ details = [c \in Crawlers |-> Null]
    /\ pair = [c \in Crawlers |-> <<>>]
    /\ raisedIn = [c \in Crawlers |-> "none"]
    /\ listing = [c \in Crawlers |-> <<"none", Null>>]
    /\ trace = [c \in Crawlers |-> <<>>]
    /\ log = [c \in Crawlers |-> <<>>]

NextPair ==
    \E c \in Crawlers :
        \/ RunStarted(c)
        \/ GetProducts(c, PairListingResponses)
        \/ LogCount(c)
        \/ NextProduct(c)
        \/ GetProductDetails(c, PairDetailResponses)
        \/ Extract(c)
        \/ Store(c)
        \/ Except(c)
        \/ Complete(c)

SpecPair == InitPair /\ [][NextPair]_vars

----------------------------------------------------------------------------
(* Properties of clean_text (SpecClean) *)

NoZwnj(s) == \A i \in 1..Len(s) : s[i] # ZWNJ
NoWsRun(s) == \A i \in 1..(Len(s) - 1) : ~(s[i] \in Whitespace /\ s[i + 1] \in Whitespace)
NoOuterWs(s) == s = <<>> \/ (s[1] \notin Whitespace /\ s[Len(s)] \notin Whitespace)
IsNormalized(s) == NoZwnj(s) /\ NoWsRun(s) /\ NoOuterWs(s)

\* The words of s: its maximal runs of characters that are neither whitespace
\* nor ZWNJ, a ZWNJ separating nothing.
RECURSIVE WordsOf(_, _)
WordsOf(s, word) ==
    IF s = <<>> THEN (IF word = <<>> THEN <<>> ELSE <<word>>)
    ELSE IF Head(s) = ZWNJ THEN WordsOf(Tail(s), word)
    ELSE IF Head(s) \in Whitespace
         THEN (IF word = <<>> THEN <<>> ELSE <<word>>) \o WordsOf(Tail(s), <<>>)
         ELSE WordsOf(Tail(s), Append(word, Head(s)))

RECURSIVE SpaceJoined(_)
SpaceJoined(words) ==
    IF words = <<>> THEN <<>>
    ELSE IF Len(words) = 1 THEN words[1]
    ELSE words[1] \o <<" ">> \o SpaceJoined(Tail(words))

\* C8: clean_text is total and idempotent over strings: for every string,
\* the empty one included, the result is a str without ZWNJ, whose only
\* whitespace is single spaces between the words of the input and none at
\* either end, and cleaning the result again changes nothing.
C8_CleanTotalIdempotent ==
    /\ cpc \in {"again", "done"} =>
         /\ Tag(once) = "str"
         /\ IsNormalized(Val(once))
         /\ Val(once) = SpaceJoined(WordsOf(text, <<>>))
    /\ cpc = "done" => twice = once

\* C8 witness: a string with a ZWNJ inside a whitespace run between two words
\* has been cleaned twice.
C8_Witness ==
    /\ cpc = "done"
    /\ text = <<"a", " ", ZWNJ, "\n", "b">>
    /\ once = Str(<<"a", " ", "b">>)

----------------------------------------------------------------------------
(* Properties of get_product_review (SpecReview) *)

Field(m, key) == Lookup(Val(m), key, Absent)
BadPath == <<"badpath", <<>>>>

\* The mapping at detail.data.product.review: the empty mapping where a
\* segment is absent, BadPath where the payload or a segment is no mapping.
ReviewOf(d) ==
    IF ~IsDict(d) THEN BadPath
    ELSE LET a == Field(d, "data") IN
    IF Tag(a) = "absent" THEN EmptyDict
    ELSE IF ~IsDict(a) THEN BadPath
    ELSE LET b == Field(a, "product") IN
    IF Tag(b) = "absent" THEN EmptyDict
    ELSE IF ~IsDict(b) THEN BadPath
    ELSE LET r == Field(b, "review") IN
    IF Tag(r) = "absent" THEN EmptyDict
    ELSE IF ~IsDict(r) THEN BadPath
    ELSE r

DescriptionOf(d) == Field(ReviewOf(d), "description")
AttributesOf(d) == Field(ReviewOf(d), "attributes")

Returned == rpc \in {"returned", "stored"}

\* C5: both fields of the returned pair are normalized strings: no ZWNJ, no
\* two consecutive whitespace characters, no leading or trailing whitespace,
\* and never null.
C5_FieldsNormalized ==
    Returned =>
        \A i \in 1..2 : Tag(review[i]) = "str" /\ IsNormalized(Val(review[i]))

\* An attribute of the expected type: a mapping whose title, when present, is
\* a string and whose values, when present, are a sequence of strings.
WellTypedAttr(a) ==
    /\ IsDict(a)
    /\ Tag(Field(a, "title")) \in {"absent", "str"}
    /\ Tag(Field(a, "values")) \in {"absent", "list"}
    /\ Tag(Field(a, "values")) = "list" =>
         \A i \in 1..Len(Val(Field(a, "values"))) : Tag(Val(Field(a, "values"))[i]) = "str"

\* Every segment is absent or of its expected type; the description may also
\* be null.
WellTyped(d) ==
    /\ ReviewOf(d) # BadPath
    /\ Tag(DescriptionOf(d)) \in {"absent", "null", "str"}
    /\ Tag(AttributesOf(d)) \in {"absent", "list"}
    /\ Tag(AttributesOf(d)) = "list" =>
         \A i \in 1..Len(Val(AttributesOf(d))) : WellTypedAttr(Val(AttributesOf(d))[i])

CharsOr(v, default) == IF Tag(v) = "str" THEN Val(v) ELSE default

RECURSIVE RefJoin(_)
RefJoin(values) ==
    IF values = <<>> THEN <<>>
    ELSE IF Len(values) = 1 THEN CleanChars(Val(values[1]))
    ELSE CleanChars(Val(values[1])) \o <<" ">> \o RefJoin(Tail(values))

RECURSIVE RefBlocks(_)
RefBlocks(attrs) ==
    IF attrs = <<>> THEN <<>>
    ELSE CleanChars(CharsOr(Field(attrs[1], "title"), <<>>)) \o <<":", " ">>
         \o RefJoin(Val(IF Tag(Field(attrs[1], "values")) = "list"
                        THEN Field(attrs[1], "values") ELSE EmptyList))
         \o <<"\n">> \o RefBlocks(Tail(attrs))

\* The reference result for a well-typed payload.
Reference(d) ==
    << Str(CleanChars(CharsOr(DescriptionOf(d), <<>>))),
       Str(RStrip(RefBlocks(IF Tag(AttributesOf(d)) = "list"
                            THEN Val(AttributesOf(d)) ELSE <<>>))) >>

\* C6: for a well-typed payload the returned pair is the reference result; a
\* missing or null description does not discard the attributes text.
C6_ReferenceResult ==
    (Returned /\ WellTyped(detail)) => review = Reference(detail)

\* An attribute of an unexpected shape: no mapping, or a title or a listed
\* value that is no string.
BadAttr(a) ==
    \/ ~IsDict(a)
    \/ Tag(Field(a, "title")) \notin {"absent", "str"}
    \/ /\ Tag(Field(a, "values")) = "list"
       /\ \E i \in 1..Len(Val(Field(a, "values"))) : Tag(Val(Field(a, "values"))[i]) # "str"

SomeBadAttr(d) ==
    /\ Tag(AttributesOf(d)) = "list"
    /\ \E i \in 1..Len(Val(AttributesOf(d))) : BadAttr(Val(AttributesOf(d))[i])

\* The unexpected shapes the claim lists.
UnexpectedShape(d) ==
    \/ ReviewOf(d) = BadPath
    \/ Tag(DescriptionOf(d)) \notin {"absent", "str"}
    \/ Tag(AttributesOf(d)) \notin {"absent", "list"}
    \/ SomeBadAttr(d)

\* attributes is an empty mapping or an empty string: no sequence, yet the
\* loop over it draws nothing and raises nothing.
EmptyNonSequence(d) ==
    /\ ReviewOf(d) # BadPath
    /\ AttributesOf(d) \in {EmptyDict, EmptyStr}

\* C7 as stated: every payload of an unexpected shape yields ("", "").
C7_UnexpectedShapeYieldsEmpty ==
    (Returned /\ UnexpectedShape(detail)) => review = <<EmptyStr, EmptyStr>>

\* C7 as amended: the call always returns a pair of strings; it is ("", "")
\* with the error logged for every unexpected shape other than attributes
\* being an empty mapping or empty string, for which the cleaned description
\* is returned with empty attributes; and the pair returned is the pair stored.
C7_ExtractionAbsorbed ==
    /\ Returned =>
         /\ Tag(review[1]) = "str" /\ Tag(review[2]) = "str"
         /\ (UnexpectedShape(detail) /\ ~EmptyNonSequence(detail)) =>
              (review = <<EmptyStr, EmptyStr>> /\ Len(rlog) = 1)
         /\ (EmptyNonSequence(detail) /\ Tag(DescriptionOf(detail)) \in {"absent", "str"}) =>
              review = <<Str(CleanChars(CharsOr(DescriptionOf(detail), <<>>))), EmptyStr>>
         /\ (EmptyNonSequence(detail) /\ Tag(DescriptionOf(detail)) \notin {"absent", "str"}) =>
              review = <<EmptyStr, EmptyStr>>
    /\ rpc = "stored" => stored = <<review>>

\* C7 witness: a payload with a description to lose and an attribute of an
\* unexpected shape has been extracted to ("", "") and stored.
C7_Witness ==
    /\ rpc = "stored"
    /\ Tag(DescriptionOf(detail)) = "str"
    /\ CleanChars(Val(DescriptionOf(detail))) # <<>>
    /\ SomeBadAttr(detail)
    /\ stored = << <<EmptyStr, EmptyStr>> >>

----------------------------------------------------------------------------
(* Properties of run(), get_products and get_product_details (Spec) *)

Running(c) == pc[c] \notin {"off", "start", "get_products"}
EventsOf(c, kind) == { j \in 1..Len(trace[c]) : trace[c][j][1] = kind }
EventsAt(c, kind, i) == { j \in EventsOf(c, kind) : trace[c][j][2] = i }
LogCountOf(c, entry) == Cardinality({ j \in 1..Len(log[c]) : log[c][j] = entry })

\* C1: run() issues one listing request, for the configured category and
\* brand and the page the Crawler was constructed with, and its log messages
\* name the page that was requested.
C1_RequestsOwnPage ==
    \A c \in Crawlers :
        /\ Cardinality(EventsOf(c, "listing")) <= 1
        /\ (Running(c) /\ raisedIn[c] # "get_products") =>
             Cardinality(EventsOf(c, "listing")) = 1
        /\ \A j \in EventsOf(c, "listing") :
             /\ trace[c][j][3] = ListingUrl(ConfigCategory, ConfigBrand, page[c])
             /\ \A k \in 1..Len(log[c]) :
                  log[c][k][2] \in {"started", "run", "completed", "count"} =>
                      log[c][k][Len(log[c][k])] = trace[c][j][3][3]

\* The response is 2xx with a JSON body whose data.products holds an array.
HoldsArray(r) ==
    /\ r[1] = "json"
    /\ IsDict(Val(r))
    /\ IsDict(Field(Val(r), "data"))
    /\ Tag(Field(Field(Val(r), "data"), "products")) = "list"

\* C4: get_products never raises and always returns a sequence: the products
\* array of a well-formed response, and the empty sequence, with the failure
\* logged, for every other response.
C4_AlwaysASequence ==
    \A c \in Crawlers :
        /\ raisedIn[c] # "get_products"
        /\ (Running(c) /\ listing[c][1] # "none") =>
             /\ Tag(products[c]) = "list"
             /\ IF HoldsArray(listing[c])
                THEN products[c] = Field(Field(Val(listing[c]), "data"), "products")
                ELSE products[c] = EmptyList /\ LogCountOf(c, <<"error", "products">>) = 1

\* The product has a resolvable identifier: an id that is a non-zero int or a
\* non-empty str.
HasIdentifier(product) ==
    /\ IsDict(product)
    /\ Tag(Field(product, "id")) \in {"int", "str"}
    /\ Field(product, "id") \notin {Num(0), EmptyStr}

\* The stages a product with an identifier passes, by kind and position.
Stages(i) == << <<"detail", i>>, <<"extract", i>>, <<"store", i>> >>

\* The stages of the products at positions from..upto of items, in order.
RECURSIVE StagesOf(_, _, _)
StagesOf(items, from, upto) ==
    IF from > upto THEN <<>>
    ELSE (IF HasIdentifier(items[from]) THEN Stages(from) ELSE <<>>)
         \o StagesOf(items, from + 1, upto)

ShapeOf(events) == [j \in 1..Len(events) |-> <<events[j][1], events[j][2]>>]

\* The loop of run has been entered: products is something to iterate.
InLoop(c) == Running(c) /\ pc[c] # "count" /\ raisedIn[c] \notin {"get_products", "len"}

\* C2: the calls of a run are the listing request followed, for the products
\* with an identifier in listing order, by detail fetch, extract and persist,
\* once each and one product after the other; a product without identifier
\* contributes nothing and the products after it are handled; a run in which
\* nothing raised has handled the whole listing.
C2_EachProductOnceInOrder ==
    \A c \in Crawlers :
        InLoop(c) =>
            /\ ShapeOf(trace[c]) =
                 << <<"listing", 0>> >>
                 \o StagesOf(Items(c), 1, idx[c] - 1)
                 \o (CASE pc[c] = "extract" -> SubSeq(Stages(idx[c]), 1, 1)
                       [] pc[c] = "store" -> SubSeq(Stages(idx[c]), 1, 2)
                       [] OTHER -> <<>>)
            /\ \A j \in EventsOf(c, "detail") :
                 trace[c][j][3][1] = Field(Items(c)[trace[c][j][2]], "id")
            /\ pc[c] \in {"details", "extract", "store"} => HasIdentifier(Items(c)[idx[c]])
            /\ (pc[c] \in {"complete", "done"} /\ raisedIn[c] = "none") =>
                 idx[c] = Len(Items(c)) + 1

\* C2 witness: a listing of three products whose second has no id has been
\* run to the end, the first and the third persisted.
C2_Witness ==
    /\ pc[1] = "done"
    /\ raisedIn[1] = "none"
    /\ Tag(products[1]) = "list"
    /\ Len(Items(1)) = 3
    /\ HasIdentifier(Items(1)[1])
    /\ IsDict(Items(1)[2]) /\ ~HasKey(Items(1)[2], "id")
    /\ HasIdentifier(Items(1)[3])
    /\ ShapeOf(trace[1]) = << <<"listing", 0>> >> \o Stages(1) \o Stages(3)

\* C3: when a statement of run's try block raises at product k (k = 0: at the
\* listing), the products before k that have an identifier are persisted,
\* nothing at or after k is persisted and nothing after k is fetched; the
\* handler logs one error with the page, the completion message is the last
\* one logged, and run returns: the exception never propagates.
C3_RaiseEndsPageNotRun ==
    \A c \in Crawlers :
        /\ pc[c] # "propagated"
        /\ raisedIn[c] # "none" =>
             /\ pc[c] \in {"except", "complete", "done"}
             /\ \A j \in 1..Len(trace[c]) : trace[c][j][2] < idx[c] \/ idx[c] = 0
             /\ idx[c] = 0 => EventsOf(c, "detail") \cup EventsOf(c, "store") = {}
             /\ idx[c] > 0 =>
                  \A i \in 1..(idx[c] - 1) :
                      Cardinality(EventsAt(c, "store", i)) =
                          (IF HasIdentifier(Items(c)[i]) THEN 1 ELSE 0)
             /\ LogCountOf(c, <<"error", "run", page[c]>>) =
                  (IF pc[c] = "except" THEN 0 ELSE 1)
        /\ pc[c] = "done" => log[c][Len(log[c])] = <<"info", "completed", page[c]>>

\* C3 witness: the detail fetch of the second of three products raised; the
\* first is persisted, the third, which has an identifier, is not, and run
\* has returned.
C3_Witness ==
    /\ pc[1] = "done"
    /\ raisedIn[1] = "get_product_details"
    /\ idx[1] = 2
    /\ Len(Items(1)) = 3
    /\ HasIdentifier(Items(1)[3])
    /\ ShapeOf(trace[1]) = << <<"listing", 0>> >> \o Stages(1)

FailedFetches(c) == { j \in EventsOf(c, "detail") : trace[c][j][3][2] = "failed" }

\* C10: a failed detail fetch returns the empty mapping without raising; the
\* product is then persisted once, as ("", ""), which is what a product
\* without review data is persisted as, and the products after it are
\* handled as in any run.
C10_FailedFetchAbsorbed ==
    \A c \in Crawlers :
        \A j \in FailedFetches(c) :
            LET i == trace[c][j][2] IN
            /\ (pc[c] = "extract" /\ idx[c] = i) =>
                 (details[c] = EmptyDict /\ raisedIn[c] = "none")
            /\ (idx[c] > i) =>
                 /\ Cardinality(EventsAt(c, "store", i)) = 1
                 /\ \A k \in EventsAt(c, "store", i) :
                      /\ trace[c][k][3] = <<EmptyStr, EmptyStr>>
                      /\ trace[c][k][3] = get_product_review(EmptyDict)
            /\ (pc[c] = "done" /\ raisedIn[c] = "none") =>
                 \A n \in (i + 1)..Len(Items(c)) :
                     Cardinality(EventsAt(c, "store", n)) =
                         (IF HasIdentifier(Items(c)[n]) THEN 1 ELSE 0)

\* C10 witness: the detail fetch of the first product failed and that of the
\* second returned a review; both are persisted, the first as ("", "").
C10_Witness ==
    /\ pc[1] = "done"
    /\ \E j \in FailedFetches(1) : trace[1][j][2] = 1
    /\ \E k \in EventsAt(1, "store", 1) : trace[1][k][3] = <<EmptyStr, EmptyStr>>
    /\ \E k \in EventsAt(1, "store", 2) : trace[1][k][3] # <<EmptyStr, EmptyStr>>

----------------------------------------------------------------------------
(* Properties of two interleaved runs (SpecPair) *)

\* C9: of two Crawlers with different pages, each requests its own page only,
\* and the calls of each are the calls of a run on its own: its listing
\* request followed by the stages of the products of its own listing.
C9_RunsIndependent ==
    \A c \in Crawlers :
        /\ \A j \in EventsOf(c, "listing") :
             trace[c][j][3] = ListingUrl(ConfigCategory, ConfigBrand, page[c])
        /\ \A d \in Crawlers \ {c} :
             \A j \in EventsOf(c, "listing"), k \in EventsOf(d, "listing") :
                 trace[c][j][3] # trace[d][k][3]
        /\ InLoop(c) =>
             ShapeOf(SubSeq(trace[c], 1, 1 + Len(StagesOf(Items(c), 1, idx[c] - 1)))) =
                 << <<"listing", 0>> >> \o StagesOf(Items(c), 1, idx[c] - 1)

====
